---- MODULE Spec2Model ----
(***************************************************************************)
(* A model of the spreadsheet package: the Spreadsheet cell store          *)
(* (spreadsheet.py), the FormulaParser (formula_parser.py) and the         *)
(* Formula evaluator (formula.py).                                         *)
(*                                                                         *)
(* Text is a sequence of one-character strings and is indexed from 0 with  *)
(* At, as the Python code indexes its strings.                             *)
(***************************************************************************)
EXTENDS Integers, Sequences, FiniteSets, TLC

VARIABLES cells, last, ops, pc, given

vars == <<cells, last, ops, pc, given>>

(***************************************************************************)
(* Bounds of the model.                                                    *)
(***************************************************************************)
\* the number of set_cell / get_cell / sort_rows_by_column calls of a run of Spec
MaxOps == 3
\* the operand cells of SpecFormula hold the integers 0..MaxInt
MaxInt == 2
\* the key texts of SpecKey have at most MaxKeyLen characters
MaxKeyLen == 3
\* the raw inputs of SpecInput have at most MaxInputLen characters
MaxInputLen == 3

(***************************************************************************)
(* Values.  Every Python value that a cell read can return, and every      *)
(* exception, is a record of one shape.  A float is held as the reduced    *)
(* fraction n/d it stands for, d > 0.                                      *)
(***************************************************************************)
Val(t, n, d, s) == [t |-> t, n |-> n, d |-> d, s |-> s]

IntV(n) == Val("int", n, 1, <<>>)

StrV(s) == Val("str", 0, 1, s)

NoneV == Val("none", 0, 1, <<>>)

\* a raised exception: its Python class and the raise site
Err(exc, what) == Val("err", 0, 1, <<exc, what>>)

IsErr(v) == v.t = "err"

IsNumeric(v) == v.t \in {"int", "float"}

Abs(n) == IF n < 0 THEN -n ELSE n

RECURSIVE Gcd(_, _)
Gcd(a, b) == IF b = 0 THEN a ELSE Gcd(b, a % b)

Reduced(n, d, g) == Val("float", n \div g, d \div g, <<>>)

Fraction(n, d) == Reduced(n, d, Gcd(Abs(n), d))

\* the float n/d
FloatV(n, d) == Fraction(IF d < 0 THEN -n ELSE n, Abs(d))

DIGITS == {"0", "1", "2", "3", "4", "5", "6", "7", "8", "9"}

ARITHMETIC_OPERATIONS == {"+", "-", "*", "/"}

\* the characters c with ord("A") <= ord(c) <= ord("Z")
UpperLetters ==
    {"A", "B", "C", "D", "E", "F", "G", "H", "I", "J", "K", "L", "M",
     "N", "O", "P", "Q", "R", "S", "T", "U", "V", "W", "X", "Y", "Z"}

At(s, i) == s[i + 1]

\* s[i:j]
Slice(s, i, j) == IF j <= i THEN <<>> ELSE SubSeq(s, i + 1, j)

DigitVal(c) ==
    CASE c = "0" -> 0 [] c = "1" -> 1 [] c = "2" -> 2 [] c = "3" -> 3
      [] c = "4" -> 4 [] c = "5" -> 5 [] c = "6" -> 6 [] c = "7" -> 7
      [] c = "8" -> 8 [] c = "9" -> 9

AllDigits(s) == \A i \in 1..Len(s) : s[i] \in DIGITS

RECURSIVE DigitsToInt(_)
DigitsToInt(s) ==
    IF s = <<>> THEN 0
    ELSE 10 * DigitsToInt(SubSeq(s, 1, Len(s) - 1)) + DigitVal(s[Len(s)])

RECURSIVE Pow10(_)
Pow10(k) == IF k = 0 THEN 1 ELSE 10 * Pow10(k - 1)

\* str.strip(): the only whitespace character of the modelled texts is the space
RECURSIVE Strip(_)
Strip(s) ==
    IF s = <<>> THEN s
    ELSE IF s[1] = " " THEN Strip(Tail(s))
    ELSE IF s[Len(s)] = " " THEN Strip(SubSeq(s, 1, Len(s) - 1))
    ELSE s

NotANumber == [ok |-> FALSE, v |-> NoneV]

SignedInt(sign, body) ==
    IF body # <<>> /\ AllDigits(body)
    THEN [ok |-> TRUE, v |-> IntV(sign * DigitsToInt(body))]
    ELSE NotANumber

StrippedInt(t) ==
    IF t # <<>> /\ t[1] = "-" THEN SignedInt(-1, Tail(t))
    ELSE IF t # <<>> /\ t[1] = "+" THEN SignedInt(1, Tail(t))
    ELSE SignedInt(1, t)

\* int(s): surrounding whitespace, an optional sign, one or more digits
\* (the modelled texts hold no underscore).  [ok, v]; not ok is ValueError.
PyInt(s) == StrippedInt(Strip(s))

SignedFloat(sign, body) ==
    LET dots  == {i \in 1..Len(body) : body[i] = "."}
        dot   == IF dots = {} THEN Len(body) + 1 ELSE CHOOSE i \in dots : TRUE
        whole == SubSeq(body, 1, dot - 1)
        frac  == SubSeq(body, dot + 1, Len(body))
    IN  IF /\ Cardinality(dots) <= 1
           /\ AllDigits(whole) /\ AllDigits(frac)
           /\ Len(whole) + Len(frac) > 0
        THEN [ok |-> TRUE,
              v  |-> FloatV(sign * DigitsToInt(whole \o frac), Pow10(Len(frac)))]
        ELSE NotANumber

StrippedFloat(t) ==
    IF t # <<>> /\ t[1] = "-" THEN SignedFloat(-1, Tail(t))
    ELSE IF t # <<>> /\ t[1] = "+" THEN SignedFloat(1, Tail(t))
    ELSE SignedFloat(1, t)

\* float(s): surrounding whitespace, an optional sign, digits with an optional
\* point, at least one digit in all (the modelled texts hold no exponent, "inf"
\* or "nan").  [ok, v]; not ok is ValueError.
PyFloat(s) == StrippedFloat(Strip(s))

(***************************************************************************)
(* Spreadsheet._parse_key.  [ok, row, col, err]                            *)
(***************************************************************************)
MalformedKey == Err("KeyError", "Malformed cell key")

KeyFail == [ok |-> FALSE, row |-> 0, col |-> "", err |-> MalformedKey]

\* the second half of _parse_key: num is int(cell_key[1:])
RowOfKey(col, num) ==
    IF ~num.ok THEN KeyFail
    ELSE IF num.v.n - 1 < 0 THEN KeyFail
    ELSE [ok |-> TRUE, row |-> num.v.n - 1, col |-> col, err |-> NoneV]

ParseKey(cell_key) ==
    IF Len(cell_key) < 2 THEN KeyFail
    ELSE IF At(cell_key, 0) \notin UpperLetters THEN KeyFail
    ELSE RowOfKey(At(cell_key, 0), PyInt(Slice(cell_key, 1, Len(cell_key))))

(***************************************************************************)
(* Formula (formula.py).  A Formula object is                              *)
(*   [t |-> "formula", get_cell, expression, negated].                     *)
(* get_cell is the bound method Spreadsheet.get_cell the object holds:     *)
(* Self is the method of the spreadsheet the formula is stored in, and     *)
(* CopyOf(S) the method of a copy.deepcopy of a spreadsheet, whose cells   *)
(* are S for ever since nothing writes to the copy.                        *)
(* An expression is a numeric value, a Formula,                            *)
(*   [t |-> "key", key]                 a CellKey string,                  *)
(*   [t |-> "=", arg]                   the tuple ("=", arg),              *)
(*   [t |-> "bin", op, left, right]     the tuple (op, left, right).       *)
(***************************************************************************)
Self == [bound |-> "self", sheet |-> <<>>]

CopyOf(S) == [bound |-> "copy", sheet |-> S]

Formula(get_cell, expression, negated) ==
    [t |-> "formula", get_cell |-> get_cell, expression |-> expression,
     negated |-> negated]

KeyExpr(key) == [t |-> "key", key |-> key]

EqExpr(arg) == [t |-> "=", arg |-> arg]

BinExpr(op, left, right) == [t |-> "bin", op |-> op, left |-> left, right |-> right]

OpSym(c) == [t |-> "op", op |-> c]

TypeMismatch == Err("ValueError", "Unexpected operation")

NegateString == Err("ValueError", "Cannot negate a string")

ZeroDivision == Err("ZeroDivisionError", "division by zero")

\* -val of a number
Negate(val) ==
    IF val.t = "int" THEN IntV(-val.n) ELSE FloatV(-val.n, val.d)

\* left_hand <op> right_hand of two numbers, as Python computes it: int
\* arithmetic is exact, / is true division, a float operand makes a float
Arith(op, l, r) ==
    CASE op = "*" -> IF l.t = "int" /\ r.t = "int" THEN IntV(l.n * r.n)
                     ELSE FloatV(l.n * r.n, l.d * r.d)
      [] op = "/" -> IF r.n = 0 THEN ZeroDivision
                     ELSE FloatV(l.n * r.d, l.d * r.n)
      [] op = "+" -> IF l.t = "int" /\ r.t = "int" THEN IntV(l.n + r.n)
                     ELSE FloatV(l.n * r.d + r.n * l.d, l.d * r.d)
      [] op = "-" -> IF l.t = "int" /\ r.t = "int" THEN IntV(l.n - r.n)
                     ELSE FloatV(l.n * r.d - r.n * l.d, l.d * r.d)

\* _compute_expression with the two texts joined the other way round
ApplyOperationReversed(op, left_hand, right_hand) ==
    IF left_hand.t = "str" /\ right_hand.t = "str" /\ op = "+"
    THEN StrV(right_hand.s \o left_hand.s)
    ELSE IF IsNumeric(left_hand) /\ IsNumeric(right_hand)
    THEN Arith(op, left_hand, right_hand)
    ELSE TypeMismatch

\* Formula._compute_expression, from both operands computed to the end
ApplyOperation(op, left_hand, right_hand) ==
    IF left_hand.t = "str" /\ right_hand.t = "str" /\ op = "+"
    THEN StrV(left_hand.s \o right_hand.s)
    ELSE IF IsNumeric(left_hand) /\ IsNumeric(right_hand)
    THEN Arith(op, left_hand, right_hand)
    ELSE TypeMismatch

\* an exception of either operand's computation goes on, the left one first
Operate(op, left_hand, right_hand) ==
    IF IsErr(left_hand) THEN left_hand
    ELSE IF IsErr(right_hand) THEN right_hand
    ELSE ApplyOperation(op, left_hand, right_hand)

\* compute with the negation flag of the formula left unread
NegatedUnread(negated, val) == val

\* the end of Formula.compute: val is the expression's value
Negated(negated, val) ==
    IF IsErr(val) THEN val
    ELSE IF negated
    THEN IF val.t = "str" THEN NegateString ELSE Negate(val)
    ELSE val

RECURSIVE Compute(_, _)
RECURSIVE ComputeExpression(_, _, _)

\* Spreadsheet._get_cell after _parse_key returned p
CellAt(sheet, p) ==
    IF ~p.ok THEN p.err
    ELSE IF p.row >= Len(sheet)
    THEN Err("IndexError", "list index out of range")
    ELSE IF p.col \notin DOMAIN sheet[p.row + 1]
    THEN Err("KeyError", "no such column in the row")
    ELSE IF sheet[p.row + 1][p.col].t \in {"int", "float", "str"}
    THEN sheet[p.row + 1][p.col]
    ELSE IF sheet[p.row + 1][p.col].t = "formula"
    THEN Compute(sheet[p.row + 1][p.col], sheet)
    ELSE Err("ValueError", "Unexpected cell contents")

\* Spreadsheet.get_cell / _get_cell on the spreadsheet with cells sheet
GetCell(sheet, cell_key) == CellAt(sheet, ParseKey(cell_key))

\* Formula._compute_expression of formula f, whose Self is the spreadsheet
\* with cells self_cells
ComputeExpression(f, expression, self_cells) ==
    CASE IsNumeric(expression) -> expression
      [] expression.t = "key" ->
            GetCell(IF f.get_cell.bound = "self" THEN self_cells
                    ELSE f.get_cell.sheet,
                    expression.key)
      [] expression.t = "formula" -> Compute(expression, self_cells)
      [] expression.t = "=" -> ComputeExpression(f, expression.arg, self_cells)
      [] expression.t = "bin" ->
            Operate(expression.op,
                    ComputeExpression(f, expression.left, self_cells),
                    ComputeExpression(f, expression.right, self_cells))

\* Formula.compute
Compute(f, self_cells) ==
    Negated(f.negated, ComputeExpression(f, f.expression, self_cells))

(***************************************************************************)
(* FormulaParser (formula_parser.py).                                      *)
(***************************************************************************)
\* what may follow a cell key or a numeric literal
Terminators == {")", " "} \cup ARITHMETIC_OPERATIONS

\* the first index from index on whose character is not in chars, or len(formula)
RECURSIVE ScanWhile(_, _, _)
ScanWhile(formula, index, chars) ==
    IF index < Len(formula) /\ At(formula, index) \in chars
    THEN ScanWhile(formula, index + 1, chars)
    ELSE index

TokenFail(err) == [ok |-> FALSE, val |-> NoneV, index |-> 0, err |-> err]

TokenOk(val, index) == [ok |-> TRUE, val |-> val, index |-> index, err |-> NoneV]

MalformedCellKey == Err("ValueError", "Malformed cell key")

MalformedNumeric == Err("ValueError", "Malformed numeric")

\* the message of a raise reads formula[index] beyond the end of the text
StringIndexError == Err("IndexError", "string index out of range")

\* _parse_cell_key from the end of its second loop: the letters are
\* formula[index:letters], the digits formula[letters:digits]
CellKeyEnd(formula, index, letters, digits) ==
    IF digits = letters
    THEN IF digits = Len(formula) THEN TokenFail(StringIndexError)
         ELSE TokenFail(MalformedCellKey)
    ELSE IF digits # Len(formula) /\ At(formula, digits) \notin Terminators
    THEN TokenFail(MalformedCellKey)
    ELSE TokenOk(KeyExpr(Slice(formula, index, digits)), digits - 1)

\* _parse_cell_key from the end of its first loop
CellKeyDigits(formula, index, letters) ==
    IF letters = index THEN TokenFail(MalformedCellKey)
    ELSE CellKeyEnd(formula, index, letters, ScanWhile(formula, letters, DIGITS))

\* FormulaParser._parse_cell_key
ParseCellKey(formula, index) ==
    CellKeyDigits(formula, index, ScanWhile(formula, index, UpperLetters))

\* the return of _parse_numeric: n is int(...) or float(...) of the literal
NumericEnd(n, index) ==
    IF n.ok THEN TokenOk(n.v, index - 1) ELSE TokenFail(MalformedNumeric)

\* _parse_numeric after the point: the literal is formula[index:frac]
NumericFraction(formula, index, frac) ==
    IF frac # Len(formula) /\ At(formula, frac) \notin Terminators
    THEN TokenFail(MalformedNumeric)
    ELSE NumericEnd(PyFloat(Slice(formula, index, frac)), frac)

\* _parse_numeric from the end of its first loop
NumericWhole(formula, index, whole) ==
    IF whole = Len(formula) \/ At(formula, whole) \in Terminators
    THEN NumericEnd(PyInt(Slice(formula, index, whole)), whole)
    ELSE IF At(formula, whole) # "." THEN TokenFail(MalformedNumeric)
    ELSE NumericFraction(formula, index, ScanWhile(formula, whole + 1, DIGITS))

\* FormulaParser._parse_numeric
ParseNumeric(formula, index) ==
    NumericWhole(formula, index, ScanWhile(formula, index, DIGITS))

\* copy.deepcopy of a symbol or expression that is reached from the spreadsheet
\* with cells self_cells: a bound method get_cell of that spreadsheet becomes
\* the method of a copy of the spreadsheet; a copy of a copy has the same cells
RECURSIVE DeepCopy(_, _)
DeepCopy(x, self_cells) ==
    CASE x.t = "formula" ->
            Formula(IF x.get_cell.bound = "self" THEN CopyOf(self_cells)
                    ELSE x.get_cell,
                    DeepCopy(x.expression, self_cells), x.negated)
      [] x.t = "=" -> EqExpr(DeepCopy(x.arg, self_cells))
      [] x.t = "bin" -> BinExpr(x.op, DeepCopy(x.left, self_cells),
                                DeepCopy(x.right, self_cells))
      [] OTHER -> x

\* deepcopy(symbols)
DeepCopyAll(symbols, self_cells) ==
    [i \in 1..Len(symbols) |-> DeepCopy(symbols[i], self_cells)]

Front(q) == SubSeq(q, 1, Len(q) - 1)

Last(q) == q[Len(q)]

SplitFail == [ok |-> FALSE, out |-> <<>>]

\* FormulaParser._split_by_operations: symbols is popped from its right end,
\* split_exp grows at its right end; at an operation left_operand is popped
\* from split_exp and right_operand from symbols
RECURSIVE SplitLoop(_, _, _)
SplitLoop(symbols, split_exp, operations) ==
    IF symbols = <<>> THEN [ok |-> TRUE, out |-> split_exp]
    ELSE IF Last(symbols).t = "op" /\ Last(symbols).op \in operations
    THEN IF split_exp = <<>> \/ Front(symbols) = <<>> THEN SplitFail
         ELSE IF Last(split_exp).t = "op" \/ Last(Front(symbols)).t = "op"
         THEN SplitFail
         ELSE SplitLoop(Front(Front(symbols)),
                        Append(Front(split_exp),
                               BinExpr(Last(symbols).op, Last(split_exp),
                                       Last(Front(symbols)))),
                        operations)
    ELSE SplitLoop(Front(symbols), Append(split_exp, Last(symbols)), operations)

SplitByOperations(symbols, operations) == SplitLoop(symbols, <<>>, operations)

MalformedExpression == Err("ValueError", "Malformed expression")

ExprFail(err) == [ok |-> FALSE, expression |-> NoneV, err |-> err]

\* the end of _operands_to_expression: second is the result of the + - pass
ExpressionOf(second) ==
    IF ~second.ok THEN ExprFail(MalformedExpression)
    ELSE IF Len(second.out) # 1 \/ second.out[1].t = "op"
    THEN ExprFail(MalformedExpression)
    ELSE [ok |-> TRUE, expression |-> second.out[1], err |-> NoneV]

\* the + - pass over the result of the * / pass
SecondPass(first) ==
    IF ~first.ok THEN ExprFail(MalformedExpression)
    ELSE ExpressionOf(SplitByOperations(first.out, {"+", "-"}))

\* _operands_to_expression with one pass that takes the four operators alike
OperandsToExpressionOnePass(symbols, self_cells) ==
    ExpressionOf(SplitByOperations(DeepCopyAll(symbols, self_cells),
                                   {"*", "/", "+", "-"}))

\* FormulaParser._operands_to_expression, called by the parser of the
\* spreadsheet with cells self_cells
OperandsToExpression(symbols, self_cells) ==
    SecondPass(SplitByOperations(DeepCopyAll(symbols, self_cells), {"*", "/"}))

ParseFail(err) == [ok |-> FALSE, formula |-> NoneV, err |-> err]

ScanFail(err) == [ok |-> FALSE, symbols |-> <<>>, err |-> err]

UnexpectedToken == Err("ValueError", "Unexpected token in formula")

RECURSIVE ParseFormula(_, _, _)
RECURSIVE ScanSymbols(_, _, _, _, _)

\* the return of _parse_sub_expression: sub is the parse of the group, which
\* ends at index j
SubExpressionEnd(sub, j) ==
    IF sub.ok THEN TokenOk(sub.formula, j) ELSE TokenFail(sub.err)

\* _parse_sub_expression with the text of the group cut at the first
\* operator inside it
SubExpressionUpToOperator(self_cells, formula, index, negated, j) ==
    IF j >= Len(formula) THEN TokenFail(StringIndexError)
    ELSE SubExpressionEnd(
             ParseFormula(self_cells,
                          <<"=">> \o Slice(formula, index + 1,
                              ScanWhile(formula, index + 1,
                                  {At(formula, k) : k \in 0..(j - 1)}
                                      \ ARITHMETIC_OPERATIONS)),
                          negated),
             j)

\* _parse_sub_expression from the end of its loop, which reads formula[j]
SubExpressionUpTo(self_cells, formula, index, negated, j) ==
    IF j >= Len(formula) THEN TokenFail(StringIndexError)
    ELSE SubExpressionEnd(
             ParseFormula(self_cells, <<"=">> \o Slice(formula, index + 1, j),
                          negated),
             j)

\* FormulaParser._parse_sub_expression: [ok, val, index, err]
ParseSubExpression(self_cells, formula, index, negated) ==
    SubExpressionUpTo(self_cells, formula, index, negated,
        ScanWhile(formula, index + 1,
                  {At(formula, k) : k \in 0..(Len(formula) - 1)} \ {")"}))

\* parse_formula after _parse_sub_expression returned sub
AfterSubExpression(self_cells, formula, symbols, sub) ==
    IF ~sub.ok THEN ScanFail(sub.err)
    ELSE ScanSymbols(self_cells, formula, sub.index + 1,
                     Append(symbols, sub.val), FALSE)

\* parse_formula after _parse_numeric returned (or raised) numeric
AfterNumeric(self_cells, formula, symbols, negate_value, numeric) ==
    IF numeric.ok
    THEN ScanSymbols(self_cells, formula, numeric.index + 1,
                     Append(symbols,
                            IF negate_value THEN Negate(numeric.val)
                            ELSE numeric.val),
                     FALSE)
    ELSE ScanFail(UnexpectedToken)

\* parse_formula after _parse_cell_key returned (or raised) cell_key: only a
\* ValueError is caught
AfterCellKey(self_cells, formula, i, symbols, negate_value, cell_key) ==
    IF cell_key.ok
    THEN ScanSymbols(self_cells, formula, cell_key.index + 1,
                     Append(symbols,
                            Formula(Self, EqExpr(cell_key.val), negate_value)),
                     FALSE)
    ELSE IF cell_key.err.s[1] # "ValueError" THEN ScanFail(cell_key.err)
    ELSE AfterNumeric(self_cells, formula, symbols, negate_value,
                      ParseNumeric(formula, i))

\* the while loop of FormulaParser.parse_formula, from index i on
ScanSymbols(self_cells, formula, i, symbols, negate_value) ==
    IF i >= Len(formula) THEN [ok |-> TRUE, symbols |-> symbols, err |-> NoneV]
    ELSE CASE At(formula, i) = "(" ->
                AfterSubExpression(self_cells, formula, symbols,
                    ParseSubExpression(self_cells, formula, i, negate_value))
           [] At(formula, i) \in ARITHMETIC_OPERATIONS ->
                IF At(formula, i - 1) \in ({"="} \cup ARITHMETIC_OPERATIONS)
                   /\ ~negate_value
                THEN ScanSymbols(self_cells, formula, i + 1, symbols, TRUE)
                ELSE ScanSymbols(self_cells, formula, i + 1,
                                 Append(symbols, OpSym(At(formula, i))),
                                 negate_value)
           [] At(formula, i) = " " ->
                ScanSymbols(self_cells, formula, i + 1, symbols, negate_value)
           [] OTHER ->
                AfterCellKey(self_cells, formula, i, symbols, negate_value,
                             ParseCellKey(formula, i))

\* the return of parse_formula: e is the result of _operands_to_expression
FormulaOf(e, negated) ==
    IF ~e.ok THEN ParseFail(e.err)
    ELSE [ok |-> TRUE, formula |-> Formula(Self, e.expression, negated),
          err |-> NoneV]

\* parse_formula after its while loop
AfterScan(self_cells, scan, negated) ==
    IF ~scan.ok THEN ParseFail(scan.err)
    ELSE FormulaOf(OperandsToExpression(scan.symbols, self_cells), negated)

\* FormulaParser.parse_formula(self.get_cell, formula, negated), self being the
\* spreadsheet with cells self_cells: [ok, formula, err]
ParseFormula(self_cells, formula, negated) ==
    IF Len(formula) <= 0 \/ At(formula, 0) # "="
    THEN ParseFail(Err("ValueError", "Formula must start with ="))
    ELSE AfterScan(self_cells, ScanSymbols(self_cells, formula, 1, <<>>, FALSE),
                   negated)

(***************************************************************************)
(* Spreadsheet (spreadsheet.py).  _cells is a sequence of rows, a row a    *)
(* function from the columns it holds to their values.                     *)
(***************************************************************************)
EmptyRow == [c \in {} |-> NoneV]

\* Spreadsheet._extend_rows
RECURSIVE ExtendRows(_, _)
ExtendRows(sheet, num_rows) ==
    IF Len(sheet) >= num_rows THEN sheet
    ELSE ExtendRows(Append(sheet, EmptyRow), num_rows)

\* self._cells[row][col] = value
Store(sheet, row, col, value) ==
    [sheet EXCEPT ![row + 1] = (col :> value) @@ @]

SetResult(sheet, result) == [cells |-> sheet, result |-> result]

\* the formula branch of set_cell: parsed is what parse_formula returned
StoreParsed(extended, p, parsed) ==
    IF parsed.ok
    THEN SetResult(Store(extended, p.row, p.col, parsed.formula), NoneV)
    ELSE SetResult(extended, parsed.err)

\* set_cell writing the raw text into the cell before the formula is parsed
SetFormulaOrTextEager(extended, p, cell_value, stripped_val) ==
    IF Len(cell_value) > 0 /\ stripped_val = <<>>
    THEN SetResult(extended, StringIndexError)
    ELSE IF Len(cell_value) > 0 /\ At(stripped_val, 0) = "="
    THEN StoreParsed(Store(extended, p.row, p.col, StrV(cell_value)), p,
                     ParseFormula(extended, stripped_val, FALSE))
    ELSE SetResult(Store(extended, p.row, p.col, StrV(cell_value)), NoneV)

\* set_cell from its last elif on: neither int() nor float() took stripped_val
SetFormulaOrText(extended, p, cell_value, stripped_val) ==
    IF Len(cell_value) > 0 /\ stripped_val = <<>>
    THEN SetResult(extended, StringIndexError)
    ELSE IF Len(cell_value) > 0 /\ At(stripped_val, 0) = "="
    THEN StoreParsed(extended, p, ParseFormula(extended, stripped_val, FALSE))
    ELSE SetResult(Store(extended, p.row, p.col, StrV(cell_value)), NoneV)

\* set_cell after _set_int returned False: as_float is float(stripped_val)
SetFloat(extended, p, cell_value, stripped_val, as_float) ==
    IF as_float.ok
    THEN SetResult(Store(extended, p.row, p.col, as_float.v), NoneV)
    ELSE SetFormulaOrText(extended, p, cell_value, stripped_val)

\* set_cell from _set_int on: as_int is int(stripped_val)
SetInt(extended, p, cell_value, stripped_val, as_int) ==
    IF as_int.ok
    THEN SetResult(Store(extended, p.row, p.col, as_int.v), NoneV)
    ELSE SetFloat(extended, p, cell_value, stripped_val, PyFloat(stripped_val))

\* set_cell once the rows are there
SetStripped(extended, p, cell_value, stripped_val) ==
    SetInt(extended, p, cell_value, stripped_val, PyInt(stripped_val))

\* set_cell after _parse_key returned p
SetParsed(sheet, p, cell_value) ==
    IF ~p.ok THEN SetResult(sheet, p.err)
    ELSE SetStripped(IF p.row >= Len(sheet)
                     THEN ExtendRows(sheet, 2 * p.row + 1) ELSE sheet,
                     p, cell_value, Strip(cell_value))

\* Spreadsheet.set_cell (with _set_int and _set_float) on the spreadsheet with
\* cells sheet: the cells afterwards, and None or the exception raised
SetCell(sheet, cell_key, cell_value) ==
    SetParsed(sheet, ParseKey(cell_key), cell_value)

\* ord(c) of the characters of the modelled texts
Ord(c) ==
    CASE c = " " -> 32 [] c = "(" -> 40 [] c = ")" -> 41 [] c = "*" -> 42
      [] c = "+" -> 43 [] c = "-" -> 45 [] c = "." -> 46 [] c = "/" -> 47
      [] c \in DIGITS -> 48 + DigitVal(c)
      [] c = "=" -> 61 [] c = "A" -> 65 [] c = "B" -> 66
      [] c = "a" -> 97 [] c = "b" -> 98

\* x < y of two str
RECURSIVE StrLess(_, _)
StrLess(x, y) ==
    IF y = <<>> THEN FALSE
    ELSE IF x = <<>> THEN TRUE
    ELSE IF x[1] = y[1] THEN StrLess(Tail(x), Tail(y))
    ELSE Ord(x[1]) < Ord(y[1])

\* x < y of two values that Python can order
ValueLess(x, y) ==
    IF x.t = "str" THEN StrLess(x.s, y.s) ELSE x.n * y.d < y.n * x.d

\* x < y raises TypeError
Unorderable(x, y) ==
    \/ x.t = "formula" \/ y.t = "formula"
    \/ (x.t = "str") # (y.t = "str")

\* sorted(): stable, and with reverse the equal rows keep their order too
RECURSIVE InsertSorted(_, _, _, _)
InsertSorted(sorted, row, col, reverse) ==
    IF sorted = <<>> THEN <<row>>
    ELSE LET tail == Last(sorted)
             goes_before == IF reverse THEN ValueLess(tail[col], row[col])
                            ELSE ValueLess(row[col], tail[col])
         IN  IF goes_before
             THEN Append(InsertSorted(Front(sorted), row, col, reverse), tail)
             ELSE Append(sorted, row)

RECURSIVE Sorted(_, _, _)
Sorted(rows, col, reverse) ==
    IF rows = <<>> THEN <<>>
    ELSE InsertSorted(Sorted(Front(rows), col, reverse), Last(rows), col, reverse)

\* Spreadsheet.sort_rows_by_column: a sort compares every row with another one,
\* so two rows that cannot be ordered raise TypeError and leave _cells alone
SortRowsByColumn(sheet, col, reverse) ==
    LET with_col == SelectSeq(sheet, LAMBDA row : col \in DOMAIN row)
        no_val   == SelectSeq(sheet, LAMBDA row : col \notin DOMAIN row)
    IN  IF \E i, j \in 1..Len(with_col) :
               i # j /\ Unorderable(with_col[i][col], with_col[j][col])
        THEN SetResult(sheet, Err("TypeError", "'<' not supported"))
        ELSE SetResult(Sorted(with_col, col, reverse) \o no_val, NoneV)

(***************************************************************************)
(* The calls of the public methods, each recorded in last.                 *)
(***************************************************************************)
Call(op, key, input, result) ==
    [op |-> op, key |-> key, input |-> input, result |-> result]

NoCall == Call("none", <<>>, <<>>, NoneV)

DoSetCell(cell_key, cell_value) ==
    LET r == SetCell(cells, cell_key, cell_value)
    IN  /\ cells' = r.cells
        /\ last' = Call("set_cell", cell_key, cell_value, r.result)

DoGetCell(cell_key) ==
    /\ cells' = cells
    /\ last' = Call("get_cell", cell_key, <<>>, GetCell(cells, cell_key))

DoSortRows(col, reverse) ==
    LET r == SortRowsByColumn(cells, col, reverse)
    IN  /\ cells' = r.cells
        /\ last' = Call("sort_rows_by_column", <<col>>,
                        IF reverse THEN <<"reverse">> ELSE <<>>, r.result)

(***************************************************************************)
(* Spec: any MaxOps calls on a new Spreadsheet.                            *)
(***************************************************************************)
A1 == <<"A", "1">>

A2 == <<"A", "2">>

A3 == <<"A", "3">>

B1 == <<"B", "1">>

Keys == {A1, A2, B1}

Inputs ==
    { <<"1">>, <<"2">>, <<"a">>,
      <<"=">> \o A1, <<"=">> \o A1 \o <<"+">> \o A2, <<"=">> \o A1 \o <<"+">> }

NoScript == [tokens |-> <<>>, gap |-> -1]

Init ==
    /\ cells = <<>>
    /\ last = NoCall
    /\ ops = 0
    /\ pc = "free"
    /\ given = NoScript

SetCellCall ==
    /\ pc = "free" /\ ops < MaxOps
    /\ \E k \in Keys, v \in Inputs : DoSetCell(k, v)
    /\ ops' = ops + 1
    /\ UNCHANGED <<pc, given>>

GetCellCall ==
    /\ pc = "free" /\ ops < MaxOps
    /\ \E k \in Keys : DoGetCell(k)
    /\ ops' = ops + 1
    /\ UNCHANGED <<pc, given>>

SortRowsCall ==
    /\ pc = "free" /\ ops < MaxOps
    /\ \E col \in {"A", "B"}, reverse \in BOOLEAN : DoSortRows(col, reverse)
    /\ ops' = ops + 1
    /\ UNCHANGED <<pc, given>>

Next == SetCellCall \/ GetCellCall \/ SortRowsCall

Spec == Init /\ [][Next]_vars

(***************************************************************************)
(* SpecFormula: the script of the package's own test.  A1, A2 and A3 are   *)
(* set to operand values, B1 to a formula text, and B1 is read.  The text  *)
(* is a list of tokens with one space put after the first gap tokens       *)
(* (gap = -1: no space).                                                   *)
(***************************************************************************)
EQ == <<"=">>

LP == <<"(">>

RP == <<")">>

Lit2 == <<"2">>

Lit15 == <<"1", ".", "5">>

Ops == {<<c>> : c \in ARITHMETIC_OPERATIONS}

RECURSIVE Flatten(_)
Flatten(tokens) ==
    IF tokens = <<>> THEN <<>> ELSE Head(tokens) \o Flatten(Tail(tokens))

Render(tokens, gap) ==
    IF gap < 0 THEN Flatten(tokens)
    ELSE Flatten(SubSeq(tokens, 1, gap)) \o <<" ">>
         \o Flatten(SubSeq(tokens, gap + 1, Len(tokens)))

Plain(tokens) == [tokens |-> tokens, gap |-> -1]

RECURSIVE IntText(_)
IntText(n) ==
    IF n < 10 THEN <<CHOOSE c \in DIGITS : DigitVal(c) = n>>
    ELSE Append(IntText(n \div 10), CHOOSE c \in DIGITS : DigitVal(c) = n % 10)

OperandInputs ==
    {IntText(n) : n \in 0..MaxInt}
    \cup {<<"1", ".", "5">>}
    \cup {<<"a">>, <<"b">>}

\* =x op y
BinaryForms ==
    {<<EQ, x, op, y>> : x \in {A1, Lit2}, y \in {A2, Lit15}, op \in Ops}

\* =A1 op A2 op A3
ChainForms == {<<EQ, A1, op1, A2, op2, A3>> : op1 \in Ops, op2 \in Ops}

\* =(A1 op A2) op A3 and =A3 op (A1 op A2)
GroupForms ==
    {<<EQ, LP, A1, op1, A2, RP, op2, A3>> : op1 \in Ops, op2 \in Ops}
    \cup {<<EQ, A3, op2, LP, A1, op1, A2, RP>> : op1 \in Ops, op2 \in Ops}

\* what a unary minus is put before: a cell reference, a literal, a group
NegOperands == {<<A1>>, <<Lit2>>, <<Lit15>>, <<LP, A1, <<"+">>, A2, RP>>}

\* =-X, =-X+X, =-(X+X), =A2 op -X
NegForms ==
    {<<EQ, <<"-">>>> \o X : X \in NegOperands}
    \cup {<<EQ, <<"-">>>> \o X \o << <<"+">> >> \o X : X \in NegOperands}
    \cup {<<EQ, <<"-">>, LP>> \o X \o << <<"+">> >> \o X \o <<RP>> :
              X \in {<<A1>>, <<Lit2>>, <<Lit15>>}}
    \cup {<<EQ, A2, op, <<"-">>, A1>> : op \in Ops}

\* texts the grammar does not derive
OtherForms ==
    { <<EQ>>, <<EQ, A1, <<"+">>>>, <<EQ, <<"*">>, A1>>, <<EQ, <<"+">>, A1>>,
      <<EQ, <<"A">>>>, <<EQ, LP, A1>>, <<EQ, LP, LP, A1, RP, RP>>,
      <<EQ, A1, A2>>, <<EQ, A1, <<"+">>, <<"*">>, <<"/">>, A2>>,
      <<EQ, <<"a">>>>, <<EQ, <<".">>>>, <<EQ, <<"1">>, <<".">>, <<"a">>>>,
      <<EQ, LP, A1, <<"+">>, RP>>, <<EQ, A1, RP>>, <<EQ, <<"A">>, <<"a">>>> }

\* the texts that a space is put into
GapBases ==
    {<<EQ, A1, op, A2>> : op \in Ops}
    \cup {<<EQ, <<"-">>, A1>>, <<EQ, A2, <<"*">>, <<"-">>, A1>>,
          <<EQ, LP, A1, <<"+">>, A2, RP, <<"*">>, A3>>, <<EQ, Lit15>>,
          <<EQ, <<"-">>, LP, A1, <<"+">>, A1, RP>>}

Scripts ==
    {Plain(t) : t \in BinaryForms \cup ChainForms \cup GroupForms
                      \cup NegForms \cup OtherForms}
    \cup UNION {{[tokens |-> t, gap |-> g] : g \in 0..Len(t)} : t \in GapBases}

OperandKey(at) ==
    CASE at = "fill1" -> A1 [] at = "fill2" -> A2 [] at = "fill3" -> A3

AfterFill(at) ==
    CASE at = "fill1" -> "fill2" [] at = "fill2" -> "fill3"
      [] at = "fill3" -> "formula"

InitFormula ==
    /\ cells = <<>>
    /\ last = NoCall
    /\ ops = 0
    /\ pc = "fill1"
    /\ given = NoScript

FillOperand ==
    /\ pc \in {"fill1", "fill2", "fill3"}
    /\ \E v \in OperandInputs : DoSetCell(OperandKey(pc), v)
    /\ pc' = AfterFill(pc)
    /\ UNCHANGED <<ops, given>>

WriteFormula ==
    /\ pc = "formula"
    /\ \E f \in Scripts :
           /\ DoSetCell(B1, Render(f.tokens, f.gap))
           /\ given' = f
    /\ pc' = "read"
    /\ UNCHANGED ops

ReadFormula ==
    /\ pc = "read"
    /\ DoGetCell(B1)
    /\ pc' = "done"
    /\ UNCHANGED <<ops, given>>

NextFormula == FillOperand \/ WriteFormula \/ ReadFormula

SpecFormula == InitFormula /\ [][NextFormula]_vars

(***************************************************************************)
(* The claims about formulas, under SpecFormula.                           *)
(***************************************************************************)
\* the value of an operand token of the script: a literal's number, or what
\* the operand cell holds
OperandValue(tok) ==
    IF tok = Lit2 THEN IntV(2)
    ELSE IF tok = Lit15 THEN FloatV(3, 2)
    ELSE GetCell(cells, tok)

OpOf(tok) == tok[1]

Unspaced(forms) == given.gap < 0 /\ given.tokens \in forms

\* the value the grammar of the specification gives to =a op1 b op2 c
ChainValue(op1, a, op2, b, c) ==
    IF op1 \in {"+", "-"} /\ op2 \in {"*", "/"}
    THEN Operate(op1, a, Operate(op2, b, c))
    ELSE Operate(op2, Operate(op1, a, b), c)

\* C2 (as claimed): a formula without parentheses evaluates as the
\* left-associative grammar says: =x op y is x op y with x the left operand,
\* and =a op1 b op2 c is (a op1 b) op2 c unless op2 binds tighter than op1.
C2_LeftAssociativeGrammar ==
    pc = "done" =>
        /\ Unspaced(BinaryForms) =>
               last.result = Operate(OpOf(given.tokens[3]),
                                     OperandValue(given.tokens[2]),
                                     OperandValue(given.tokens[4]))
        /\ Unspaced(ChainForms) =>
               last.result = ChainValue(OpOf(given.tokens[3]),
                                        OperandValue(given.tokens[2]),
                                        OpOf(given.tokens[5]),
                                        OperandValue(given.tokens[4]),
                                        OperandValue(given.tokens[6]))

NumericOperands == \A k \in {A1, A2, A3} : IsNumeric(GetCell(cells, k))

\* C3: for numeric a, b, c the formulas =a+b*c and =a-b*c evaluate to
\* a+(b*c) and a-(b*c), and =a*b+c and =a*b-c to (a*b)+c and (a*b)-c.
C3_MultiplicationBindsTighter ==
    (pc = "done" /\ Unspaced(ChainForms) /\ NumericOperands) =>
        LET a   == GetCell(cells, A1)
            b   == GetCell(cells, A2)
            c   == GetCell(cells, A3)
            op1 == OpOf(given.tokens[3])
            op2 == OpOf(given.tokens[5])
        IN  /\ (op1 \in {"+", "-"} /\ op2 = "*") =>
                   last.result = Arith(op1, a, Arith("*", b, c))
            /\ (op1 = "*" /\ op2 \in {"+", "-"}) =>
                   last.result = Arith(op2, Arith("*", a, b), c)

\* C3 happens: =A1+A2*A3 with A1 = 1, A2 = 2, A3 = 2 was read as 5
C3_Witness ==
    /\ pc = "done"
    /\ given = Plain(<<EQ, A1, <<"+">>, A2, <<"*">>, A3>>)
    /\ GetCell(cells, A1) = IntV(1)
    /\ GetCell(cells, A2) = IntV(2)
    /\ GetCell(cells, A3) = IntV(2)
    /\ last.result = IntV(5)

\* C4: for numeric a, b, c the formula =(a+b)*c evaluates to (a+b)*c and
\* =c*(a+b) to c*(a+b); likewise with a-b in the group.
C4_GroupIsOneOperand ==
    (pc = "done" /\ Unspaced(GroupForms) /\ NumericOperands) =>
        LET a == GetCell(cells, A1)
            b == GetCell(cells, A2)
            c == GetCell(cells, A3)
            t == given.tokens
        IN  /\ (t[2] = LP /\ OpOf(t[4]) \in {"+", "-"} /\ OpOf(t[7]) = "*") =>
                   last.result = Arith("*", Arith(OpOf(t[4]), a, b), c)
            /\ (t[2] = A3 /\ OpOf(t[6]) \in {"+", "-"} /\ OpOf(t[3]) = "*") =>
                   last.result = Arith("*", c, Arith(OpOf(t[6]), a, b))

\* C4 happens: =(A1+A2)*A3 with A1 = 1, A2 = 2, A3 = 2 was read as 6
C4_Witness ==
    /\ pc = "done"
    /\ given = Plain(<<EQ, LP, A1, <<"+">>, A2, RP, <<"*">>, A3>>)
    /\ GetCell(cells, A1) = IntV(1)
    /\ GetCell(cells, A2) = IntV(2)
    /\ GetCell(cells, A3) = IntV(2)
    /\ last.result = IntV(6)

\* C5: when an operand of =x op y is Text, set_cell stores the formula and
\* get_cell returns the left text followed by the right text for Text + Text,
\* and raises the ValueError of a type mismatch for every other pairing.
C5_TextOperands ==
    LET x  == OperandValue(given.tokens[2])
        y  == OperandValue(given.tokens[4])
        op == OpOf(given.tokens[3])
    IN  (Unspaced(BinaryForms) /\ (x.t = "str" \/ y.t = "str")) =>
            /\ pc = "read" => last.result = NoneV
            /\ pc = "done" =>
                   IF x.t = "str" /\ y.t = "str" /\ op = "+"
                   THEN last.result = StrV(x.s \o y.s)
                   ELSE last.result = TypeMismatch

\* C5 happens: =A1+A2 with A1 = "a", A2 = "b" was read as "ab"
C5_Witness ==
    /\ pc = "done"
    /\ given = Plain(<<EQ, A1, <<"+">>, A2>>)
    /\ GetCell(cells, A1) = StrV(<<"a">>)
    /\ GetCell(cells, A2) = StrV(<<"b">>)
    /\ last.result = StrV(<<"a", "b">>)

\* C6 (as claimed, for the pairs that have a quotient): =x op y of two numbers
\* yields a number; of two Integers the exact Integer for + - * and the
\* quotient of x by y for /.
C6_NumericPairsSucceed ==
    LET x  == OperandValue(given.tokens[2])
        y  == OperandValue(given.tokens[4])
        op == OpOf(given.tokens[3])
        r  == last.result
    IN  (/\ pc = "done" /\ Unspaced(BinaryForms)
         /\ IsNumeric(x) /\ IsNumeric(y) /\ ~(op = "/" /\ y.n = 0)) =>
            /\ IsNumeric(r)
            /\ (x.t = "int" /\ y.t = "int") =>
                   CASE op = "+" -> r = IntV(x.n + y.n)
                     [] op = "-" -> r = IntV(x.n - y.n)
                     [] op = "*" -> r = IntV(x.n * y.n)
                     [] op = "/" -> r.n * y.n = x.n * r.d

\* the value of the operand X that a unary minus of the script is put before
NegOperandValue(X) ==
    IF Len(X) = 1 THEN OperandValue(X[1])
    ELSE Operate(OpOf(X[3]), OperandValue(X[2]), OperandValue(X[4]))

\* C7: =-X evaluates to the negation of X's value, =-X+X to 0 and =-(X+X) to
\* -2 times X's value, X being a cell reference, a literal or (for the first
\* two) a group; when X is Text, set_cell stores =-X and get_cell raises the
\* ValueError of negating a string.
C7_UnaryMinus ==
    /\ \A X \in NegOperands :
           LET v == NegOperandValue(X)
           IN  /\ (given = Plain(<<EQ, <<"-">>>> \o X) /\ v.t = "str") =>
                      /\ pc = "read" => last.result = NoneV
                      /\ pc = "done" => last.result = NegateString
               /\ (pc = "done" /\ given = Plain(<<EQ, <<"-">>>> \o X)
                   /\ IsNumeric(v)) =>
                      last.result = Negate(v)
               /\ (pc = "done" /\ IsNumeric(v)
                   /\ given = Plain(<<EQ, <<"-">>>> \o X \o << <<"+">> >> \o X)) =>
                      (IsNumeric(last.result) /\ last.result.n = 0)
    /\ \A X \in {<<A1>>, <<Lit2>>, <<Lit15>>} :
           LET v == NegOperandValue(X)
           IN  (/\ pc = "done" /\ IsNumeric(v)
                /\ given = Plain(<<EQ, <<"-">>, LP>> \o X \o << <<"+">> >>
                                 \o X \o <<RP>>)) =>
                   last.result = Arith("*", IntV(-2), v)

\* C7 happens: =-A1 with A1 = 2 was read as -2
C7_Witness ==
    /\ pc = "done"
    /\ given = Plain(<<EQ, <<"-">>, A1>>)
    /\ GetCell(cells, A1) = IntV(2)
    /\ last.result = IntV(-2)

\* C8 (as claimed): a space before the =, directly after it or between two
\* tokens changes neither whether set_cell accepts the formula nor the value
\* get_cell returns.
C8_SpacesInsignificant ==
    (given.gap >= 0 /\ given.gap < Len(given.tokens)) =>
        /\ pc = "read" =>
               last.result = SetCell(cells, B1, Flatten(given.tokens)).result
        /\ pc = "done" =>
               last.result =
                   GetCell(SetCell(cells, B1, Flatten(given.tokens)).cells, B1)

(***************************************************************************)
(* SpecKey: one set_cell and one get_cell with a key text of at most       *)
(* MaxKeyLen characters.  SpecInput: one set_cell of A1 with a raw input   *)
(* of at most MaxInputLen characters, and one get_cell of A1.              *)
(***************************************************************************)
Texts(chars, n) == UNION {[1..k -> chars] : k \in 0..n}

KeyChars == {"A", "B", "b", "0", "1", "+", " "}

InputChars == {" ", "1", ".", "-", "=", "a", "A"}

Seven == <<"7">>

InitKey ==
    /\ cells = <<>>
    /\ last = NoCall
    /\ ops = 0
    /\ pc = "key"
    /\ given = NoScript

KeySet ==
    /\ pc = "key"
    /\ \E k \in Texts(KeyChars, MaxKeyLen) :
           /\ DoSetCell(k, Seven)
           /\ given' = Plain(<<k>>)
    /\ pc' = "keyread"
    /\ UNCHANGED ops

KeyRead ==
    /\ pc = "keyread"
    /\ DoGetCell(given.tokens[1])
    /\ pc' = "done"
    /\ UNCHANGED <<ops, given>>

NextKey == KeySet \/ KeyRead

SpecKey == InitKey /\ [][NextKey]_vars

InitInput ==
    /\ cells = <<>>
    /\ last = NoCall
    /\ ops = 0
    /\ pc = "input"
    /\ given = NoScript

InputSet ==
    /\ pc = "input"
    /\ \E v \in Texts(InputChars, MaxInputLen) :
           /\ DoSetCell(A1, v)
           /\ given' = Plain(<<v>>)
    /\ pc' = "inputread"
    /\ UNCHANGED ops

InputRead ==
    /\ pc = "inputread"
    /\ DoGetCell(A1)
    /\ pc' = "done"
    /\ UNCHANGED <<ops, given>>

NextInput == InputSet \/ InputRead

SpecInput == InitInput /\ [][NextInput]_vars

\* one uppercase letter followed by the decimal digits of a positive number
WellFormedKey(k) ==
    /\ Len(k) >= 2
    /\ k[1] \in UpperLetters
    /\ AllDigits(Tail(k))
    /\ DigitsToInt(Tail(k)) > 0

\* C9 (as claimed): set_cell and get_cell accept a key exactly when it is one
\* uppercase letter followed by the decimal digits of a positive row number;
\* with any other key both raise the KeyError of a malformed key and the
\* set_cell stores nothing.
C9_KeysAccepted ==
    LET k == given.tokens[1]
    IN  /\ pc = "keyread" =>
               IF WellFormedKey(k) THEN last.result = NoneV
               ELSE last.result = MalformedKey /\ cells = <<>>
        /\ pc = "done" =>
               IF WellFormedKey(k) THEN last.result = IntV(7)
               ELSE last.result = MalformedKey

\* the raw input is neither a number nor a formula
IsPlainText(v) ==
    /\ ~PyInt(Strip(v)).ok
    /\ ~PyFloat(Strip(v)).ok
    /\ ~(Strip(v) # <<>> /\ Strip(v)[1] = "=")

\* what A1 holds, None when it holds nothing
StoredAtA1 ==
    IF Len(cells) >= 1 /\ "A" \in DOMAIN cells[1] THEN cells[1]["A"] ELSE NoneV

\* C10 (as claimed): set_cell stores the trimmed input as Integer if int()
\* takes it, else as Float if float() takes it, else as a Formula if it begins
\* with = (unless the formula is rejected), else the untrimmed input as Text,
\* which get_cell then returns verbatim.
C10_StoredKind ==
    LET v == given.tokens[1]
        t == Strip(v)
    IN  /\ pc = "inputread" =>
               IF PyInt(t).ok THEN StoredAtA1 = PyInt(t).v
               ELSE IF PyFloat(t).ok THEN StoredAtA1 = PyFloat(t).v
               ELSE IF t # <<>> /\ t[1] = "="
               THEN IF last.result = NoneV THEN StoredAtA1.t = "formula"
                    ELSE StoredAtA1 = NoneV
               ELSE last.result = NoneV /\ StoredAtA1 = StrV(v)
        /\ (pc = "done" /\ IsPlainText(v)) => last.result = StrV(v)

(***************************************************************************)
(* The claims about the cell store, under Spec.                            *)
(***************************************************************************)
\* what the cell with the (well-formed) key k holds, None when nothing
Stored(k) ==
    LET p == ParseKey(k)
    IN  IF p.row < Len(cells) /\ p.col \in DOMAIN cells[p.row + 1]
        THEN cells[p.row + 1][p.col]
        ELSE NoneV

\* the cell holds the formula =D
IsReferenceTo(value, D) ==
    /\ value.t = "formula"
    /\ ~value.negated
    /\ value.expression.t = "formula"
    /\ ~value.expression.negated
    /\ value.expression.expression = EqExpr(KeyExpr(D))

\* C1 (as claimed): a formula read follows the current sheet: when cell F
\* holds the formula =D and D holds a number or a text, get_cell(F) returns
\* what D holds now.
C1_FormulaFollowsSheet ==
    last.op = "get_cell" =>
        \A D \in Keys \ {last.key} :
            (/\ IsReferenceTo(Stored(last.key), D)
             /\ Stored(D).t \in {"int", "float", "str"})
            => last.result = Stored(D)

\* the ways to reorder n rows: the permutations of 1..n
RowOrders(n) == {p \in [1..n -> 1..n] : \A i, j \in 1..n : p[i] = p[j] => i = j}

\* new is old with whole rows moved as a stable sort by col does: the rows
\* with a value in col first, in the order of that value (descending when
\* reverse), the rows of equal value and the rows without one in their old order
IsStableSort(old, new, col, reverse) ==
    /\ Len(new) = Len(old)
    /\ \E p \in RowOrders(Len(old)) :
           /\ \A i \in 1..Len(old) : new[i] = old[p[i]]
           /\ \A i, j \in 1..Len(old) :
                  i < j =>
                      IF col \notin DOMAIN new[i] THEN
                          col \notin DOMAIN new[j] /\ p[i] < p[j]
                      ELSE IF col \notin DOMAIN new[j] THEN TRUE
                      ELSE IF reverse
                      THEN /\ ~ValueLess(new[i][col], new[j][col])
                           /\ ~ValueLess(new[j][col], new[i][col]) => p[i] < p[j]
                      ELSE /\ ~ValueLess(new[j][col], new[i][col])
                           /\ ~ValueLess(new[i][col], new[j][col]) => p[i] < p[j]

\* C11 (as claimed): every sort_rows_by_column(col, reverse) completes and
\* leaves the rows stably sorted by col, rows without a value in col last,
\* with the number of rows and every row's contents as before.
C11_SortPermutesRows ==
    [][SortRowsCall =>
          /\ last'.result = NoneV
          /\ IsStableSort(cells, cells', last'.key[1], last'.input # <<>>)]_vars

\* the columns that some row of the sheet has a value in
Columns(sheet) == UNION {DOMAIN sheet[i] : i \in 1..Len(sheet)}

\* what row i (from 1) of the sheet holds in column c, None when nothing
ValueAt(sheet, i, c) ==
    IF i <= Len(sheet) /\ c \in DOMAIN sheet[i] THEN sheet[i][c] ELSE NoneV

\* C12: a set_cell that raises (its formula text does not parse) leaves every
\* stored value as it was, and get_cell of the target address returns what it
\* returned before; a set_cell that returns changes no stored value but the
\* one at its own address.
C12_FailedSetKeepsValues ==
    [][SetCellCall =>
          LET p      == ParseKey(last'.key)
              failed == IsErr(last'.result)
          IN  /\ \A i \in 1..Len(cells'), c \in Columns(cells) \cup Columns(cells') :
                     (failed \/ i # p.row + 1 \/ c # p.col) =>
                         ValueAt(cells', i, c) = ValueAt(cells, i, c)
              /\ (failed /\ ValueAt(cells, p.row + 1, p.col) # NoneV) =>
                     GetCell(cells', last'.key) = GetCell(cells, last'.key)]_vars

\* C12 happens: set_cell of a formula text that does not parse has raised and
\* the target cell holds the Integer it held before
C12_Witness ==
    /\ last.op = "set_cell"
    /\ last.input = <<"=">> \o A1 \o <<"+">>
    /\ IsErr(last.result)
    /\ Stored(last.key).t = "int"

(***************************************************************************)
(* The claims about the parser's errors and its tokens, under SpecFormula. *)
(***************************************************************************)
\* formula texts that are not well-formed: nothing after =, a missing
\* operand, two adjacent operands, two adjacent binary operators, a closing
\* parenthesis alone, a syntax error inside a group, a group that is not
\* closed, nested parentheses
MalformedTexts ==
    { <<EQ>>, <<EQ, A1, <<"+">>>>, <<EQ, A1, A2>>,
      <<EQ, A1, <<"+">>, <<"*">>, <<"/">>, A2>>, <<EQ, A1, RP>>,
      <<EQ, LP, A1, <<"+">>, RP>>, <<EQ, LP, A1>>,
      <<EQ, LP, LP, A1, RP, RP>> }

\* C13 (as claimed): set_cell of a formula text that is not well-formed
\* raises ValueError, and nothing else.
C13_MalformedRejected ==
    (pc = "read" /\ given.gap < 0 /\ given.tokens \in MalformedTexts) =>
        /\ IsErr(last.result)
        /\ last.result.s[1] = "ValueError"

\* C14 (as claimed): in =cA1 with c an arithmetic character right after the
\* =, c is taken as a negation marker when it is - or + (the one symbol is the
\* negated reference) and appended as a binary operator when it is * or /
\* (the symbols are c and the reference, which set_cell then rejects).
C14_NegationMarker ==
    (/\ pc = "read" /\ given.gap < 0
     /\ given.tokens \in {<<EQ, c, A1>> : c \in Ops}) =>
        LET c    == OpOf(given.tokens[2])
            scan == ScanSymbols(cells, last.input, 1, <<>>, FALSE)
        IN  IF c \in {"-", "+"}
            THEN /\ Len(scan.symbols) = 1
                 /\ scan.symbols[1].negated
                 /\ last.result = NoneV
            ELSE /\ Len(scan.symbols) = 2
                 /\ scan.symbols[1] = OpSym(c)
                 /\ ~scan.symbols[2].negated
                 /\ IsErr(last.result)

(***************************************************************************)
(* The claim about reference cycles, under Spec.                           *)
(***************************************************************************)
\* C15 (as claimed): get_cell of a cell whose formula references that same
\* cell never returns a value.
C15_CycleNeverReturns ==
    (last.op = "get_cell" /\ IsReferenceTo(Stored(last.key), last.key)) =>
        IsErr(last.result)

====
